---- MODULE Spec2Model ----
(***************************************************************************)
(* image-labeler (src/src/main.rs): reads GPS position and capture date    *)
(* from the EXIF data of every JPEG of a directory, asks a reverse         *)
(* geocoder for the place, and renames the file after date, sequence       *)
(* number, country code and place.                                         *)
(*                                                                         *)
(* Text is a sequence of characters, a character a one-element string.     *)
(* Option<T> is a sequence of length 0 (None) or 1 (Some).                 *)
(***************************************************************************)
EXTENDS Integers, Sequences, FiniteSets, TLC

VARIABLES
    pc,         \* main: the statement the loop of lines 46-69 is at
    sequence,   \* main: `let mut sequence` (line 44)
    files,      \* the directory entries read so far, with what happened to each
    log,        \* the sleeps and lookups made so far, in order
    path,       \* main: index in `files` of the entry being processed (0: none)
    metadata,   \* main: `metadata` (line 52)
    response,   \* main: `location_response` (line 59)
    exit,       \* how main ended: "running", "Ok", "NotADirectory", "Err"
    call,       \* the arguments of a single call of rename_file / extract_metadata
    ret         \* what that call computed

vars == <<pc, sequence, files, log, path, metadata, response, exit, call, ret>>

----------------------------------------------------------------------------
(* Bounds of the model *)

\* directory entries read in one run
MaxFiles == 3
\* length of the display names enumerated for sanitization
MaxLen == 3
\* largest numerator of an EXIF rational
MaxNum == 1
\* largest denominator of an EXIF rational
MaxDen == 2

----------------------------------------------------------------------------
(* Option, characters, text *)

None == <<>>
Some(v) == <<v>>
IsSome(o) == Len(o) = 1
Unwrap(o) == o[1]
\* Option::or
OrElse(a, b) == IF IsSome(a) THEN a ELSE b
\* Option::unwrap_or
UnwrapOr(o, d) == IF IsSome(o) THEN o[1] ELSE d

Range(s) == {s[i] : i \in 1..Len(s)}
MaxOf(S) == CHOOSE m \in S : \A x \in S : x <= m

LowerAlpha == <<"a","b","c","d","e","f","g","h","i","j","k","l","m",
                "n","o","p","q","r","s","t","u","v","w","x","y","z">>
UpperAlpha == <<"A","B","C","D","E","F","G","H","I","J","K","L","M",
                "N","O","P","Q","R","S","T","U","V","W","X","Y","Z">>
Digits == <<"0","1","2","3","4","5","6","7","8","9">>

IndexIn(alpha, c) == CHOOSE i \in 1..Len(alpha) : alpha[i] = c

\* char::is_alphanumeric, on the ASCII characters the model uses
is_alphanumeric(c) == c \in Range(LowerAlpha) \cup Range(UpperAlpha) \cup Range(Digits)
\* char::is_digit(10)
is_digit(c) == c \in Range(Digits)
\* char::is_whitespace
is_whitespace(c) == c \in {" ", "\t", "\n"}

UpperChar(c) == IF c \in Range(LowerAlpha) THEN UpperAlpha[IndexIn(LowerAlpha, c)] ELSE c
LowerChar(c) == IF c \in Range(UpperAlpha) THEN LowerAlpha[IndexIn(UpperAlpha, c)] ELSE c
\* str::to_uppercase, str::to_lowercase
to_uppercase(s) == [i \in 1..Len(s) |-> UpperChar(s[i])]
to_lowercase(s) == [i \in 1..Len(s) |-> LowerChar(s[i])]

\* Display of an unsigned integer, as format!("{}", n) prints it
RECURSIVE DisplayU32(_)
DisplayU32(n) == IF n < 10 THEN <<Digits[n + 1]>>
               ELSE DisplayU32(n \div 10) \o <<Digits[(n % 10) + 1]>>

\* [String]::join
RECURSIVE join(_, _)
join(parts, sep) == IF Len(parts) = 0 THEN <<>>
                    ELSE IF Len(parts) = 1 THEN parts[1]
                    ELSE parts[1] \o sep \o join(Tail(parts), sep)

\* str::split_whitespace: the maximal non-empty runs of non-whitespace, in order.
\* `word` is the run being read.
RECURSIVE SplitFrom(_, _)
SplitFrom(s, word) ==
    IF Len(s) = 0 THEN (IF Len(word) = 0 THEN <<>> ELSE <<word>>)
    ELSE IF is_whitespace(Head(s))
         THEN (IF Len(word) = 0 THEN <<>> ELSE <<word>>) \o SplitFrom(Tail(s), <<>>)
         ELSE SplitFrom(Tail(s), Append(word, Head(s)))
split_whitespace(s) == SplitFrom(s, <<>>)

\* str::contains(char)
contains(s, c) == \E i \in 1..Len(s) : s[i] = c

\* Path::extension: the text after the last '.' of the file name; none when the
\* name has no '.', or only a leading one
extension(p) ==
    LET n == p.file_name
        D == {i \in 1..Len(n) : n[i] = "."}
    IN  IF D = {} \/ MaxOf(D) = 1 THEN None
        ELSE Some(SubSeq(n, MaxOf(D) + 1, Len(n)))

\* Path::with_file_name
with_file_name(p, name) == [dir |-> p.dir, file_name |-> name]

----------------------------------------------------------------------------
(* f64, as far as to_decimal uses it: a sign and an exact magnitude num/den, *)
(* or an infinity, or NaN.  Negation flips the sign and keeps the magnitude, *)
(* so the negation of zero is the zero with the sign set.                    *)

RECURSIVE Gcd(_, _)
Gcd(a, b) == IF b = 0 THEN a ELSE Gcd(b, a % b)
\* the magnitude is kept in lowest terms
Fin(neg, num, den) == [kind |-> "fin", neg |-> neg,
                       num |-> num \div Gcd(num, den), den |-> den \div Gcd(num, den)]
Inf == [kind |-> "inf", neg |-> FALSE, num |-> 1, den |-> 1]
NaN == [kind |-> "nan", neg |-> FALSE, num |-> 0, den |-> 1]

\* exif::Rational::to_f64: num as f64 / denom as f64
to_f64(r) == IF r.denom = 0 THEN (IF r.num = 0 THEN NaN ELSE Inf)
             ELSE Fin(FALSE, r.num, r.denom)
\* a + b, for a and b of no negative sign
FAdd(a, b) == IF a.kind = "nan" \/ b.kind = "nan" THEN NaN
              ELSE IF a.kind = "inf" \/ b.kind = "inf" THEN Inf
              ELSE Fin(FALSE, a.num * b.den + b.num * a.den, a.den * b.den)
\* a / k, for a constant k > 0
FDiv(a, k) == IF a.kind = "fin" THEN Fin(a.neg, a.num, a.den * k) ELSE a
\* -a
FNeg(a) == [a EXCEPT !.neg = ~a.neg]
\* a < 0.0 and a >= 0.0, as f64 compares (a zero of either sign is not below zero)
FNegative(a) == a.kind # "nan" /\ a.neg /\ a.num > 0
FNonNegative(a) == a.kind # "nan" /\ (~a.neg \/ a.num = 0)

----------------------------------------------------------------------------
(* extract_metadata and to_decimal (lines 79-126) *)

\* a bug to_decimal could have: the minutes divided by 600
to_decimal_minutes600(field) ==
    IF field.type = "Rational" /\ Len(field.v) >= 3
    THEN Some(FAdd(FAdd(to_f64(field.v[1]), FDiv(to_f64(field.v[2]), 600)),
                   FDiv(to_f64(field.v[3]), 3600)))
    ELSE None

to_decimal(field) ==
    IF field.type = "Rational" /\ Len(field.v) >= 3
    THEN Some(FAdd(FAdd(to_f64(field.v[1]), FDiv(to_f64(field.v[2]), 60)),
                   FDiv(to_f64(field.v[3]), 3600)))
    ELSE None

\* lines 93-94: the sign, from the display text of the reference field
lat_final(latitude, lat_ref) == IF contains(lat_ref, "S") THEN FNeg(latitude) ELSE latitude
lon_final(longitude, lon_ref) == IF contains(lon_ref, "W") THEN FNeg(longitude) ELSE longitude

\* lines 104-107: the first 8 digits of the text
RECURSIVE FilterDigits(_)
FilterDigits(s) == IF Len(s) = 0 THEN <<>>
                   ELSE IF is_digit(Head(s)) THEN <<Head(s)>> \o FilterDigits(Tail(s))
                   ELSE FilterDigits(Tail(s))
yyyymmdd(date_str) == LET d == FilterDigits(date_str)
                      IN  IF Len(d) > 8 THEN SubSeq(d, 1, 8) ELSE d

\* `exif` is None when the file cannot be opened or holds no EXIF data
extract_metadata(exif) ==
    IF ~IsSome(exif) THEN None
    ELSE LET e == Unwrap(exif)
             date_field == OrElse(e.DateTimeOriginal, e.DateTime)
         IN  IF \/ ~IsSome(e.GPSLatitude) \/ ~IsSome(e.GPSLatitudeRef)
                \/ ~IsSome(e.GPSLongitude) \/ ~IsSome(e.GPSLongitudeRef)
             THEN None
             ELSE IF ~IsSome(to_decimal(Unwrap(e.GPSLatitude))) THEN None
             ELSE IF ~IsSome(to_decimal(Unwrap(e.GPSLongitude))) THEN None
             ELSE IF ~IsSome(date_field) THEN None
             ELSE IF Len(yyyymmdd(Unwrap(date_field))) # 8 THEN None
             ELSE Some([lat  |-> lat_final(Unwrap(to_decimal(Unwrap(e.GPSLatitude))),
                                           Unwrap(e.GPSLatitudeRef)),
                        lon  |-> lon_final(Unwrap(to_decimal(Unwrap(e.GPSLongitude))),
                                           Unwrap(e.GPSLongitudeRef)),
                        date |-> yyyymmdd(Unwrap(date_field))])

\* is_jpeg (lines 74-77)
is_jpeg(p) == LET ext == to_lowercase(UnwrapOr(extension(p), <<>>))
              IN  ext = <<"j","p","g">> \/ ext = <<"j","p","e","g">>

----------------------------------------------------------------------------
(* rename_file (lines 145-190): its locals, one operator each *)

road(resp) == resp.address.road

\* a bug of line 149-151: the city preferred to the town
town_or_city_city_first(resp) ==
    OrElse(OrElse(resp.address.city, resp.address.town), resp.address.village)

town_or_city(resp) ==
    OrElse(OrElse(resp.address.town, resp.address.city), resp.address.village)

country(resp) == resp.address.country

\* a bug of line 154: the code left as the geocoder sent it
country_code_as_sent(resp) == UnwrapOr(resp.address.country_code, <<"u","n","k","n","o","w","n">>)

country_code(resp) ==
    to_uppercase(UnwrapOr(resp.address.country_code, <<"u","n","k","n","o","w","n">>))

\* lines 156-168
location_parts(resp) ==
    LET place == IF IsSome(town_or_city(resp)) THEN <<Unwrap(town_or_city(resp))>> ELSE <<>>
        withRoad == IF IsSome(road(resp)) THEN Append(place, Unwrap(road(resp))) ELSE place
    IN  IF Len(withRoad) = 0 /\ IsSome(country(resp))
        THEN <<Unwrap(country(resp))>>
        ELSE withRoad

\* a bug of line 170: the display name taken whenever no place name was found
uses_display_name_no_place(resp) == ~IsSome(town_or_city(resp))

\* line 170: whether the display name is the location
uses_display_name(resp) == Len(location_parts(resp)) = 0

location(resp) == IF uses_display_name(resp) THEN resp.display_name
                  ELSE join(location_parts(resp), <<",", " ">>)

\* line 178
SafeChar(c) == IF is_alphanumeric(c) \/ c = " " \/ c = "," THEN c ELSE "_"

\* a bug of lines 177-182: the characters replaced, the whitespace left as it is
safe_location_no_split(loc) == [i \in 1..Len(loc) |-> SafeChar(loc[i])]

\* lines 177-182
safe_location(loc) ==
    join(split_whitespace([i \in 1..Len(loc) |-> SafeChar(loc[i])]), <<" ">>)

\* a bug of line 184: the extension left out
new_name_no_extension(p, resp, date, seq) ==
    date \o <<"_">> \o DisplayU32(seq) \o <<"_">> \o country_code(resp) \o <<",", " ">>
         \o safe_location(location(resp))

\* line 184: format!("{}_{}_{}, {}.{}", date, sequence, country_code, safe_location, extension)
new_name(p, resp, date, seq) ==
    date \o <<"_">> \o DisplayU32(seq) \o <<"_">> \o country_code(resp) \o <<",", " ">>
         \o safe_location(location(resp)) \o <<".">> \o UnwrapOr(extension(p), <<>>)

\* line 185
new_path(p, resp, date, seq) == with_file_name(p, new_name(p, resp, date, seq))

----------------------------------------------------------------------------
(* The inputs: paths, EXIF data, geocoder answers *)

Path(name) == [dir |-> "photos", file_name |-> name]

Rational(n, d) == [num |-> n, denom |-> d]
RationalValue(v) == [type |-> "Rational", v |-> v]

Exif(lat, lat_ref, lon, lon_ref, original, date_time) ==
    Some([GPSLatitude |-> lat, GPSLatitudeRef |-> lat_ref,
          GPSLongitude |-> lon, GPSLongitudeRef |-> lon_ref,
          DateTimeOriginal |-> original, DateTime |-> date_time])

\* "2024:01:15 10:00:00", "2023:10:24 12:00:00" and "23:1:2"
Date2024 == <<"2","0","2","4",":","0","1",":","1","5"," ","1","0",":","0","0",":","0","0">>
Date2023 == <<"2","0","2","3",":","1","0",":","2","4"," ","1","2",":","0","0",":","0","0">>
DateShort == <<"2","3",":","1",":","2">>

\* 48 deg 51' 23", 2 deg 21' 8"
LatParis == RationalValue(<<Rational(48, 1), Rational(51, 1), Rational(23, 1)>>)
LonParis == RationalValue(<<Rational(2, 1), Rational(21, 1), Rational(8, 1)>>)

ExifParis == Exif(Some(LatParis), Some(<<"N">>), Some(LonParis), Some(<<"E">>),
                  Some(Date2024), None)
ExifNoGps == Exif(None, None, None, None, Some(Date2024), None)
ExifShortDate == Exif(Some(LatParis), Some(<<"N">>), Some(LonParis), Some(<<"E">>),
                      None, Some(DateShort))

Address(road_, city, town, village, state, country_, code) ==
    [road |-> road_, city |-> city, town |-> town, village |-> village,
     state |-> state, country |-> country_, country_code |-> code]

Paris == <<"P","a","r","i","s">>
Lyon == <<"L","y","o","n">>
Eze == <<"E","z","e">>
MainSt == <<"M","a","i","n"," ","S","t">>
Ohio == <<"O","h","i","o">>
France == <<"F","r","a","n","c","e">>
ParisFrance == Paris \o <<",", " ">> \o France
BadName == <<" ", "a", "/", " ", " ", "b">>

\* the geocoder's answer of the end-to-end scenario
ResponseParis ==
    [display_name |-> ParisFrance,
     address |-> Address(None, None, Some(Paris), None, None, Some(France), Some(<<"f","r">>))]
\* an answer with no address field at all
ResponseBare ==
    [display_name |-> BadName,
     address |-> Address(None, None, None, None, None, None, None)]

\* what a run of main may meet
RunPaths == {Path(<<"a",".","j","p","g">>), Path(<<"b",".","J","P","E","G">>),
             Path(<<"c",".","t","x","t">>), Path(<<"d",".","j","p","g">>)}
RunExifs == {ExifParis, ExifNoGps, ExifShortDate, None}
RunResponses == {ResponseParis, ResponseBare}

NewFile(p, e) == [orig |-> p, name |-> p, exif |-> e, outcome |-> "reading",
                  lookup |-> "none", seq |-> 0]

----------------------------------------------------------------------------
(* main (lines 36-72), one action per statement that reads or changes the   *)
(* world                                                                   *)

NoCall == UNCHANGED <<call, ret>>

\* lines 37-46: the directory test and read_dir
Start ==
    /\ pc = "start"
    /\ \E is_dir \in BOOLEAN, read_dir_ok \in BOOLEAN :
          IF ~is_dir THEN pc' = "done" /\ exit' = "NotADirectory"
          ELSE IF ~read_dir_ok THEN pc' = "done" /\ exit' = "Err(read_dir)"
          ELSE pc' = "scan" /\ exit' = exit
    /\ UNCHANGED <<sequence, files, log, path, metadata, response>>
    /\ NoCall

\* a bug of line 50: the extension gate left out
NextEntry_no_gate ==
    /\ pc = "scan"
    /\ Len(files) < MaxFiles
    /\ \E p \in RunPaths, e \in RunExifs :
          /\ \A i \in 1..Len(files) : files[i].orig # p
          /\ files' = Append(files, NewFile(p, e))
          /\ path' = Len(files) + 1
          /\ pc' = "extract"
    /\ UNCHANGED <<sequence, log, metadata, response, exit>>
    /\ NoCall

\* lines 46-50: the next entry of the directory, and the extension gate
NextEntry ==
    /\ pc = "scan"
    /\ Len(files) < MaxFiles
    /\ \E p \in RunPaths, e \in RunExifs :
          /\ \A i \in 1..Len(files) : files[i].orig # p
          /\ IF is_jpeg(p)
             THEN /\ files' = Append(files, NewFile(p, e))
                  /\ path' = Len(files) + 1
                  /\ pc' = "extract"
             ELSE /\ files' = Append(files, [NewFile(p, e) EXCEPT !.outcome = "ineligible"])
                  /\ path' = 0
                  /\ pc' = "scan"
    /\ UNCHANGED <<sequence, log, metadata, response, exit>>
    /\ NoCall

\* line 47: the directory listing fails
EntryError ==
    /\ pc = "scan"
    /\ pc' = "done"
    /\ exit' = "Err(read_dir)"
    /\ UNCHANGED <<sequence, files, log, path, metadata, response>>
    /\ NoCall

\* lines 46 and 71: the listing is exhausted
Finish ==
    /\ pc = "scan"
    /\ pc' = "done"
    /\ exit' = "Ok"
    /\ UNCHANGED <<sequence, files, log, path, metadata, response>>
    /\ NoCall

\* lines 52-53 and 65-67
ExtractMetadata ==
    /\ pc = "extract"
    /\ LET m == extract_metadata(files[path].exif)
       IN  IF IsSome(m)
           THEN /\ metadata' = m
                /\ pc' = "sleep"
                /\ UNCHANGED <<files, path>>
           ELSE /\ metadata' = None
                /\ files' = [files EXCEPT ![path].outcome = "no_metadata"]
                /\ path' = 0
                /\ pc' = "scan"
    /\ UNCHANGED <<sequence, log, response, exit>>
    /\ NoCall

\* a bug of line 57: no delay before the lookup
Sleep_no_delay ==
    /\ pc = "sleep"
    /\ pc' = "lookup"
    /\ UNCHANGED <<sequence, files, log, path, metadata, response, exit>>
    /\ NoCall

\* line 57
Sleep ==
    /\ pc = "sleep"
    /\ log' = Append(log, [ev |-> "sleep", file |-> path])
    /\ pc' = "lookup"
    /\ UNCHANGED <<sequence, files, path, metadata, response, exit>>
    /\ NoCall

\* a bug of lines 58-64: the counter advanced after the match, whatever its arm
GetLocation_consumes_number ==
    /\ pc = "lookup"
    /\ log' = Append(log, [ev |-> "lookup", file |-> path])
    /\ \E r \in {None} \cup {Some(x) : x \in RunResponses} :
          IF IsSome(r)
          THEN /\ response' = r
               /\ files' = [files EXCEPT ![path].lookup = "ok"]
               /\ pc' = "rename"
               /\ UNCHANGED <<path, metadata, sequence>>
          ELSE /\ response' = None
               /\ files' = [files EXCEPT ![path].lookup = "failed",
                                         ![path].outcome = "lookup_failed"]
               /\ sequence' = sequence + 1
               /\ path' = 0
               /\ metadata' = None
               /\ pc' = "scan"
    /\ UNCHANGED <<exit>>
    /\ NoCall

\* a bug of line 63: the lookup's error returned from main
GetLocation_aborts ==
    /\ pc = "lookup"
    /\ log' = Append(log, [ev |-> "lookup", file |-> path])
    /\ \E r \in {None} \cup {Some(x) : x \in RunResponses} :
          IF IsSome(r)
          THEN /\ response' = r
               /\ files' = [files EXCEPT ![path].lookup = "ok"]
               /\ pc' = "rename"
               /\ UNCHANGED <<path, metadata, exit>>
          ELSE /\ response' = None
               /\ files' = [files EXCEPT ![path].lookup = "failed",
                                         ![path].outcome = "lookup_failed"]
               /\ path' = 0
               /\ metadata' = None
               /\ exit' = "Err(get_location)"
               /\ pc' = "done"
    /\ UNCHANGED <<sequence>>
    /\ NoCall

\* lines 58-59 and 63: get_location answers or fails
GetLocation ==
    /\ pc = "lookup"
    /\ log' = Append(log, [ev |-> "lookup", file |-> path])
    /\ \E r \in {None} \cup {Some(x) : x \in RunResponses} :
          IF IsSome(r)
          THEN /\ response' = r
               /\ files' = [files EXCEPT ![path].lookup = "ok"]
               /\ pc' = "rename"
               /\ UNCHANGED <<path, metadata>>
          ELSE /\ response' = None
               /\ files' = [files EXCEPT ![path].lookup = "failed",
                                         ![path].outcome = "lookup_failed"]
               /\ path' = 0
               /\ metadata' = None
               /\ pc' = "scan"
    /\ UNCHANGED <<sequence, exit>>
    /\ NoCall

\* lines 60-61, with rename_file's fs::rename (line 188) succeeding or not
RenameFile ==
    /\ pc = "rename"
    /\ \E renamed \in BOOLEAN :
          IF renamed
          THEN /\ files' = [files EXCEPT
                     ![path].name = new_path(files[path].orig, Unwrap(response),
                                             Unwrap(metadata).date, sequence),
                     ![path].seq = sequence,
                     ![path].outcome = "renamed"]
               /\ sequence' = sequence + 1
               /\ pc' = "scan"
               /\ exit' = exit
          ELSE /\ files' = [files EXCEPT ![path].outcome = "rename_failed"]
               /\ sequence' = sequence
               /\ pc' = "done"
               /\ exit' = "Err(rename)"
    /\ path' = 0
    /\ metadata' = None
    /\ response' = None
    /\ UNCHANGED <<log>>
    /\ NoCall

Init ==
    /\ pc = "start"
    /\ sequence = 1
    /\ files = <<>>
    /\ log = <<>>
    /\ path = 0
    /\ metadata = None
    /\ response = None
    /\ exit = "running"
    /\ call = None
    /\ ret = None

Next ==
    \/ Start
    \/ NextEntry
    \/ EntryError
    \/ Finish
    \/ ExtractMetadata
    \/ Sleep
    \/ GetLocation
    \/ RenameFile

Spec == Init /\ [][Next]_vars

----------------------------------------------------------------------------
(* One call of rename_file, over many arguments *)

\* every text of at most n characters of C
RECURSIVE Texts(_, _)
Texts(C, n) == IF n = 0 THEN {<<>>}
               ELSE Texts(C, n - 1) \cup {Append(t, c) : t \in Texts(C, n - 1), c \in C}

LocationChars == {"a", " ", ",", "/", "\t"}

Opt(S) == {None} \cup {Some(x) : x \in S}

\* answers with every combination of address fields, present or not
AddressResponses ==
    {[display_name |-> ParisFrance, address |-> Address(r, c, t, v, s, k, cc)] :
        r \in Opt({MainSt}), c \in Opt({Lyon}), t \in Opt({Paris, <<>>}),
        v \in Opt({Eze}), s \in Opt({Ohio}), k \in Opt({France}),
        cc \in Opt({<<"f","r">>, <<"U","s">>})}
\* answers whose display name is the location, over every short text
DisplayResponses ==
    {[display_name |-> d, address |-> Address(None, None, None, None, None, None, None)] :
        d \in Texts(LocationChars, MaxLen)}

Date20240115 == <<"2","0","2","4","0","1","1","5">>

RenameCalls ==
    {[fn |-> "rename_file", path |-> p, response |-> r, date |-> Date20240115, sequence |-> n] :
        p \in {Path(<<"a",".","j","p","g">>), Path(<<"b",".","c",".","J","P","E","G">>)},
        r \in AddressResponses \cup DisplayResponses \cup {ResponseBare},
        n \in {1, 12}}

IdleMain ==
    /\ pc = "call"
    /\ sequence = 1
    /\ files = <<>>
    /\ log = <<>>
    /\ path = 0
    /\ metadata = None
    /\ response = None
    /\ exit = "running"

InitRename ==
    /\ IdleMain
    /\ call \in RenameCalls
    /\ ret = None

\* rename_file(&path, &response, &date, sequence), fs::rename succeeding or not
CallRenameFile ==
    /\ pc = "call"
    /\ call.fn = "rename_file"
    /\ ret = None
    /\ \E renamed \in BOOLEAN :
          ret' = Some([location |-> location(call.response),
                       used_display_name |-> uses_display_name(call.response),
                       country_code |-> country_code(call.response),
                       safe_location |-> safe_location(location(call.response)),
                       new_path |-> new_path(call.path, call.response, call.date, call.sequence),
                       result |-> IF renamed THEN "Ok" ELSE "Err"])
    /\ UNCHANGED <<pc, sequence, files, log, path, metadata, response, exit, call>>

NextRename == CallRenameFile

SpecRename == InitRename /\ [][NextRename]_vars

----------------------------------------------------------------------------
(* One call of extract_metadata, over many EXIF contents *)

Rationals == {Rational(n, d) : n \in 0..MaxNum, d \in 0..MaxDen}
Triples == {<<a, b, c>> : a \in Rationals, b \in Rationals, c \in Rationals}

\* every triple as latitude, under every reference text
GpsExifs ==
    {Exif(Some(RationalValue(t)), Some(lat_ref), Some(lon), Some(lon_ref), Some(Date2023), None) :
        t \in Triples, lat_ref \in {<<"N">>, <<"S">>, <<>>},
        lon \in {LonParis, RationalValue(<<Rational(0, 1), Rational(0, 1), Rational(0, 1)>>)},
        lon_ref \in {<<"E">>, <<"W">>}}
\* fields missing, values of another shape, dates of every kind
OtherExifs ==
    {Exif(lat, lat_ref, Some(LonParis), lon_ref, original, date_time) :
        lat \in {None, Some(LatParis), Some(RationalValue(<<Rational(48, 1), Rational(51, 1)>>)),
                 Some([type |-> "SRational", v |-> LatParis.v]),
                 Some(RationalValue(Append(LatParis.v, Rational(0, 1))))},
        lat_ref \in Opt({<<"S">>}), lon_ref \in Opt({<<"W">>}),
        original \in Opt({Date2024, DateShort}), date_time \in Opt({Date2023})}

ExtractCalls ==
    {[fn |-> "extract_metadata", exif |-> e] :
        e \in GpsExifs \cup OtherExifs \cup {None, ExifParis, ExifNoGps, ExifShortDate}}

InitExtract ==
    /\ IdleMain
    /\ call \in ExtractCalls
    /\ ret = None

\* extract_metadata(&path)
CallExtractMetadata ==
    /\ pc = "call"
    /\ call.fn = "extract_metadata"
    /\ ret = None
    /\ ret' = Some([metadata |-> extract_metadata(call.exif)])
    /\ UNCHANGED <<pc, sequence, files, log, path, metadata, response, exit, call>>

NextExtract == CallExtractMetadata

SpecExtract == InitExtract /\ [][NextExtract]_vars

----------------------------------------------------------------------------
(* Properties of a run of main, checked under Spec *)

Renamed(i) == files[i].outcome = "renamed"
RenamedUpTo(i) == Cardinality({j \in 1..i : Renamed(j)})
Eligible(i) == is_jpeg(files[i].orig)
HasMetadata(i) == IsSome(extract_metadata(files[i].exif))
Lookups(i) == {k \in 1..Len(log) : log[k] = [ev |-> "lookup", file |-> i]}

RECURSIVE ParseU32(_)
ParseU32(s) == IF Len(s) = 0 THEN 0
               ELSE ParseU32(SubSeq(s, 1, Len(s) - 1)) * 10 + (IndexIn(Digits, s[Len(s)]) - 1)
\* the number between the first and the second '_' of a new name; the date before
\* the first is 8 digits long
NumberInName(n) ==
    LET j == CHOOSE j \in 10..Len(n) : n[j] = "_" /\ \A k \in 10..(j - 1) : n[k] # "_"
    IN  ParseU32(SubSeq(n, 10, j - 1))

\* C1: the counter starts at 1 and is always one more than the number of files
\* renamed so far; the k-th file renamed was given, and carries in its name, the
\* number k; a file not renamed was given no number.
C1_SequenceNumbers ==
    /\ sequence = 1 + RenamedUpTo(Len(files))
    /\ \A i \in 1..Len(files) :
          IF Renamed(i)
          THEN /\ files[i].seq = RenamedUpTo(i)
               /\ NumberInName(files[i].name.file_name) = RenamedUpTo(i)
          ELSE files[i].seq = 0

\* three eligible files, the second one's lookup failed: numbers 1 and 2
C1_Witness ==
    /\ Len(files) = 3
    /\ \A i \in 1..3 : Eligible(i)
    /\ files[2].lookup = "failed"
    /\ Renamed(1) /\ NumberInName(files[1].name.file_name) = 1
    /\ Renamed(3) /\ NumberInName(files[3].name.file_name) = 2

\* the run stopped at file i, main returning that file's error
AbortedAt(i) ==
    /\ pc = "done"
    /\ i = Len(files)
    /\ exit \notin {"Ok", "Err(read_dir)"}

\* C7, as claimed: no failure of one file, a failed rename included, ends the run.
C7_NoFailureAborts ==
    \A i \in 1..Len(files) :
        files[i].outcome \in {"no_metadata", "lookup_failed", "rename_failed"} => ~AbortedAt(i)

\* C7, amended: missing metadata and a failed lookup are isolated to their file, the
\* loop going back to the directory listing; a failed rename ends the run with
\* rename_file's error.
C7_OnlyRenameAborts ==
    \A i \in 1..Len(files) :
        /\ files[i].outcome \in {"no_metadata", "lookup_failed"} =>
              /\ ~AbortedAt(i)
              /\ i = Len(files) => pc \in {"scan", "done"}
        /\ files[i].outcome = "rename_failed" => AbortedAt(i) /\ exit = "Err(rename)"

\* a file with no metadata, then one whose lookup failed, then one renamed
C7_Witness ==
    /\ Len(files) = 3
    /\ files[1].outcome = "no_metadata"
    /\ files[2].outcome = "lookup_failed"
    /\ Renamed(3)

\* C8: a file whose name changed passed the extension gate, had its metadata
\* extracted and its lookup answered, and is no longer being processed; a file
\* that is ineligible or without metadata keeps its name and no lookup is made for
\* it; a file whose lookup failed keeps its name.
C8_RenameOnlyAfterGates ==
    \A i \in 1..Len(files) :
        /\ files[i].name # files[i].orig =>
              /\ Eligible(i) /\ HasMetadata(i)
              /\ files[i].lookup = "ok" /\ Lookups(i) # {}
              /\ Renamed(i) /\ path # i
        /\ (~Eligible(i) \/ ~HasMetadata(i)) =>
              /\ files[i].name = files[i].orig
              /\ Lookups(i) = {} /\ files[i].lookup = "none"
        /\ files[i].lookup = "failed" => files[i].name = files[i].orig

\* a finished run with an ineligible file that has GPS and date, a file whose
\* lookup failed and a renamed file
C8_Witness ==
    /\ pc = "done" /\ exit = "Ok"
    /\ \E i, j, k \in 1..Len(files) :
          /\ ~Eligible(i) /\ HasMetadata(i) /\ files[i].name = files[i].orig
          /\ files[j].lookup = "failed" /\ files[j].name = files[j].orig
          /\ files[k].name # files[k].orig

\* C10: every lookup comes right after a delay taken for the same file; a delay is
\* taken only for a file whose metadata was extracted; a file that reached the
\* lookup has exactly one lookup, answered or not, and any other file none.
C10_DelayBeforeLookup ==
    /\ \A k \in 1..Len(log) :
          /\ log[k].ev = "lookup" =>
                k > 1 /\ log[k - 1] = [ev |-> "sleep", file |-> log[k].file]
          /\ log[k].ev = "sleep" => Eligible(log[k].file) /\ HasMetadata(log[k].file)
    /\ \A i \in 1..Len(files) :
          Cardinality(Lookups(i)) = IF files[i].lookup = "none" THEN 0 ELSE 1

\* two lookups, the first one failed, a delay before each
C10_Witness ==
    /\ Len(log) = 4
    /\ log[2].ev = "lookup" /\ files[log[2].file].lookup = "failed"
    /\ log[3].ev = "sleep" /\ log[4].ev = "lookup"

----------------------------------------------------------------------------
(* Properties of rename_file, checked under SpecRename *)

Returned == IsSome(ret)
Got == Unwrap(ret)
Given == call.response.address

\* the new file name with `sep` between country code and location
NameWith(sep) ==
    call.date \o <<"_">> \o DisplayU32(call.sequence) \o <<"_">> \o Got.country_code
        \o sep \o Got.safe_location \o <<".">> \o UnwrapOr(extension(call.path), <<>>)

ParisScenario ==
    /\ call.response = ResponseParis
    /\ call.sequence = 1
    /\ call.path = Path(<<"a",".","j","p","g">>)

\* C2, as claimed: the new name is {date}_{sequence}_{COUNTRYCODE}_{location}.{ext}.
C2_UnderscoreBeforeLocation ==
    Returned => Got.new_path.file_name = NameWith(<<"_">>)

\* C2, amended: the new name is {date}_{sequence}_{COUNTRYCODE}, {location}.{ext},
\* a comma and a space between country code and location, in the directory of the
\* original; the scenario's file becomes "20240115_1_FR, Paris.jpg".
C2_NewName ==
    Returned =>
        /\ Got.new_path.file_name = NameWith(<<",", " ">>)
        /\ Got.new_path.dir = call.path.dir
        /\ ParisScenario =>
              Got.new_path.file_name =
                  <<"2","0","2","4","0","1","1","5","_","1","_","F","R",",",
                    " ","P","a","r","i","s",".","j","p","g">>

C2_Witness == Returned /\ ParisScenario /\ Got.result = "Ok"

\* C3: the location is the place name (town, else city, else village) followed by
\* the road, joined with ", "; the country alone when there is neither.
C3_LocationText ==
    Returned =>
        LET place == IF IsSome(Given.town) THEN Given.town
                     ELSE IF IsSome(Given.city) THEN Given.city
                     ELSE Given.village
        IN  /\ IsSome(place) /\ IsSome(Given.road) =>
                  Got.location = Unwrap(place) \o <<",", " ">> \o Unwrap(Given.road)
            /\ IsSome(place) /\ ~IsSome(Given.road) => Got.location = Unwrap(place)
            /\ ~IsSome(place) /\ IsSome(Given.road) => Got.location = Unwrap(Given.road)
            /\ ~IsSome(place) /\ ~IsSome(Given.road) /\ IsSome(Given.country) =>
                  Got.location = Unwrap(Given.country)

\* town, city, village, road, state and country all present
C3_Witness ==
    /\ Returned
    /\ Given.town = Some(Paris) /\ Given.city = Some(Lyon) /\ Given.village = Some(Eze)
    /\ Given.road = Some(MainSt) /\ Given.state = Some(Ohio) /\ Given.country = Some(France)
    /\ Got.location = Paris \o <<",", " ">> \o MainSt

NothingChosen ==
    /\ ~IsSome(Given.town) /\ ~IsSome(Given.city) /\ ~IsSome(Given.village)
    /\ ~IsSome(Given.road) /\ ~IsSome(Given.country)

\* C4: the location is the display name, verbatim, when town, city, village, road
\* and country are all absent, and is taken from it in no other case.
C4_DisplayNameFallback ==
    Returned =>
        /\ NothingChosen => Got.used_display_name /\ Got.location = call.response.display_name
        /\ ~NothingChosen => ~Got.used_display_name

\* only the state present: the display name is the location
C4_Witness ==
    /\ Returned
    /\ NothingChosen /\ Given.state = Some(Ohio)
    /\ Got.location = ParisFrance

\* the name starts with date, sequence number and `token`
StartsWithToken(token) ==
    LET pre == call.date \o <<"_">> \o DisplayU32(call.sequence) \o <<"_">> \o token
        name == Got.new_path.file_name
    IN  Len(name) >= Len(pre) /\ SubSeq(name, 1, Len(pre)) = pre

\* C5, as claimed: the token is the country code in uppercase, and "unknown" when
\* there is none.
C5_LowercaseUnknown ==
    Returned =>
        LET token == IF IsSome(Given.country_code)
                     THEN to_uppercase(Unwrap(Given.country_code))
                     ELSE <<"u","n","k","n","o","w","n">>
        IN  Got.country_code = token /\ StartsWithToken(token)

\* C5, amended: the token is the country code in uppercase, and "UNKNOWN" when
\* there is none.
C5_UppercaseToken ==
    Returned =>
        LET token == IF IsSome(Given.country_code)
                     THEN to_uppercase(Unwrap(Given.country_code))
                     ELSE <<"U","N","K","N","O","W","N">>
        IN  Got.country_code = token /\ StartsWithToken(token)

\* no country code
C5_Witness ==
    /\ Returned
    /\ ~IsSome(Given.country_code)
    /\ StartsWithToken(<<"U","N","K","N","O","W","N">>)

\* every character that is not alphanumeric, a space or a comma replaced by '_'
Replaced(t) ==
    [i \in 1..Len(t) |->
        IF is_alphanumeric(t[i]) \/ t[i] \in {" ", ","} THEN t[i] ELSE "_"]
\* every run of whitespace replaced by one space
CollapseRuns(t) ==
    LET keep == {i \in 1..Len(t) : ~(is_whitespace(t[i]) /\ i > 1 /\ is_whitespace(t[i - 1]))}
        at(k) == CHOOSE i \in keep : Cardinality({j \in keep : j <= i}) = k
    IN  [k \in 1..Cardinality(keep) |-> IF is_whitespace(t[at(k)]) THEN " " ELSE t[at(k)]]
\* the whitespace at both ends removed
Strip(t) ==
    LET ink == {i \in 1..Len(t) : ~is_whitespace(t[i])}
    IN  IF ink = {} THEN <<>>
        ELSE SubSeq(t, CHOOSE i \in ink : \A j \in ink : i <= j, MaxOf(ink))

\* C6, as claimed: the sanitized location is the location with the characters
\* replaced and every run of whitespace collapsed to one space.
C6_EveryRunCollapsed ==
    Returned => Got.safe_location = CollapseRuns(Replaced(Got.location))

\* C6, amended: the sanitized location is the location with the characters
\* replaced, the whitespace at its two ends removed and every run of whitespace
\* inside collapsed to one space; it holds only alphanumerics, commas,
\* underscores and single spaces.
C6_Sanitized ==
    Returned =>
        LET safe == Got.safe_location
        IN  /\ safe = Strip(CollapseRuns(Replaced(Got.location)))
            /\ \A i \in 1..Len(safe) :
                  /\ is_alphanumeric(safe[i]) \/ safe[i] \in {",", "_", " "}
                  /\ i > 1 /\ safe[i] = " " => safe[i - 1] # " "

\* " a/  b" becomes "a_ b"
C6_Witness ==
    /\ Returned
    /\ Got.location = BadName
    /\ Got.safe_location = <<"a", "_", " ", "b">>

----------------------------------------------------------------------------
(* Properties of extract_metadata, checked under SpecExtract *)

ValidTriple(f) ==
    /\ IsSome(f)
    /\ Unwrap(f).type = "Rational"
    /\ Len(Unwrap(f).v) >= 3
    /\ \A k \in 1..3 : Unwrap(f).v[k].denom > 0

\* x = degrees + minutes/60 + seconds/3600 in size, over the common denominator
IsDmsOf(x, f) ==
    LET v == Unwrap(f).v
        n == v[1].num * 3600 * v[2].denom * v[3].denom
             + v[2].num * 60 * v[1].denom * v[3].denom
             + v[3].num * v[1].denom * v[2].denom
        d == 3600 * v[1].denom * v[2].denom * v[3].denom
    IN  x.kind = "fin" /\ x.num * d = n * x.den

Decoded == IsSome(ret) /\ IsSome(call.exif) /\ IsSome(Got.metadata)
Fields == Unwrap(call.exif)
Coordinates == Unwrap(Got.metadata)

\* C9, as claimed: the coordinate is degrees + minutes/60 + seconds/3600, below
\* zero whenever the reference holds 'S' (latitude) or 'W' (longitude), and not
\* below zero whenever it does not.
C9_NegativeWhenSouthOrWest ==
    Decoded =>
        /\ ValidTriple(Fields.GPSLatitude) =>
              /\ IsDmsOf(Coordinates.lat, Fields.GPSLatitude)
              /\ IF contains(Unwrap(Fields.GPSLatitudeRef), "S")
                 THEN FNegative(Coordinates.lat) ELSE FNonNegative(Coordinates.lat)
        /\ ValidTriple(Fields.GPSLongitude) =>
              /\ IsDmsOf(Coordinates.lon, Fields.GPSLongitude)
              /\ IF contains(Unwrap(Fields.GPSLongitudeRef), "W")
                 THEN FNegative(Coordinates.lon) ELSE FNonNegative(Coordinates.lon)

\* the sign of x under a reference that holds, or not, the letter of the negative
\* hemisphere
SignFollows(x, negated) ==
    IF negated THEN x.neg /\ (x.num > 0 => FNegative(x)) /\ (x.num = 0 => ~FNegative(x))
    ELSE ~x.neg /\ FNonNegative(x)

\* C9, amended: the coordinate is degrees + minutes/60 + seconds/3600, negated
\* whenever the reference holds 'S' (latitude) or 'W' (longitude), which makes it
\* below zero unless it is zero (then it is the negative zero, not below zero),
\* and not below zero whenever the reference holds no such letter.
C9_NegatedWhenSouthOrWest ==
    Decoded =>
        /\ ValidTriple(Fields.GPSLatitude) =>
              /\ IsDmsOf(Coordinates.lat, Fields.GPSLatitude)
              /\ SignFollows(Coordinates.lat, contains(Unwrap(Fields.GPSLatitudeRef), "S"))
        /\ ValidTriple(Fields.GPSLongitude) =>
              /\ IsDmsOf(Coordinates.lon, Fields.GPSLongitude)
              /\ SignFollows(Coordinates.lon, contains(Unwrap(Fields.GPSLongitudeRef), "W"))

\* a latitude of 1 deg 1' 1" South and a longitude of 0 deg 0' 0" West
C9_Witness ==
    /\ Decoded
    /\ Fields.GPSLatitude = Some(RationalValue(<<Rational(1, 1), Rational(1, 1), Rational(1, 1)>>))
    /\ Fields.GPSLatitudeRef = Some(<<"S">>)
    /\ FNegative(Coordinates.lat)
    /\ ValidTriple(Fields.GPSLongitude) /\ Fields.GPSLongitudeRef = Some(<<"W">>)
    /\ Coordinates.lon.num = 0 /\ Coordinates.lon.neg

====
